---- MODULE Spec2Model ----
(***************************************************************************)
(* Model of uk_absence_tracker_app.py: one run of the script is a pipeline *)
(* load -> process (sort, Length, ledger) -> daily allowance tracker ->    *)
(* restoration table, with the optional auto-refresh starting it again.    *)
(* Dates are day numbers (calendar dates at midnight); a row of the trip   *)
(* table is a record [Departure, Return].                                  *)
(***************************************************************************)
EXTENDS Integers, Sequences, FiniteSets, TLC

VARIABLES pc, data, today, df, Length, Allowance, daily, restoration, restoration_df

vars == <<pc, data, today, df, Length, Allowance, daily, restoration, restoration_df>>

(* ------------------------------ bounds --------------------------------- *)

\* dates of the enumerated rows are 0..MaxDate
MaxDate == 3

\* the enumerated trip tables have at most MaxTrips rows
MaxTrips == 2

(* ------------------------- program constants --------------------------- *)

\* allowance = 180
InitialAllowance == 180

\* remaining = max(180 - days_abroad, 0)
DailyCap == 180

\* end_future = datetime.today() + timedelta(days=365)
FutureDays == 365

\* date = row.Return + timedelta(days=365)
RestoreDays == 365

\* .head(10)
HeadLimit == 10

(* ------------------------------ inputs --------------------------------- *)

Dates == 0 .. MaxDate

Row(d, r) == [Departure |-> d, Return |-> r]

Rows == {Row(d, r) : d \in Dates, r \in Dates}

\* every table of at most MaxTrips rows, in every input order, the rows with
\* Return <= Departure included (the script reads whatever the source holds)
ShortInputs == UNION {[1 .. n -> Rows] : n \in 0 .. MaxTrips}

\* tables of HeadLimit + 1 and HeadLimit + 2 rows, so that head(10) cuts.
\* Trip i leaves on day i - 1. LongAsc, LongDesc: it stays gap days, the rows
\* given in ascending and in descending order of Departure (with the gap of
\* 20 the trips use more than the whole allowance). LongNested: each trip
\* lies inside the one before it, so the restore dates run against the
\* departures. LongTied: LongAsc and one more row leaving on day 0.
LongGaps == {2, 20}

LongLen == HeadLimit + 1

LongAsc(g) == [i \in 1 .. LongLen |-> Row(i - 1, i - 1 + g)]

LongDesc(g) == [i \in 1 .. LongLen |-> Row(LongLen - i, LongLen - i + g)]

LongNested == [i \in 1 .. LongLen |-> Row(i - 1, 2 * LongLen - i + 1)]

LongTied(g) == Append(LongAsc(g), Row(0, 2))

LongInputs ==
    {LongAsc(g) : g \in LongGaps}
        \cup {LongDesc(g) : g \in LongGaps}
        \cup {LongTied(g) : g \in LongGaps}
        \cup {LongNested}

Inputs == ShortInputs \cup LongInputs

\* the day the script runs, for planned trips: the projection window ends on
\* day 1, inside or before the enumerated trips, or on day 35, after all of
\* them
TodaySet == {-364, -330}

\* the day the script runs, for past trips: more than a year after some of
\* the returns, so that some restore dates have passed and others have not
LateSet == {368}

(* ------------------------------ helpers -------------------------------- *)

Max(a, b) == IF a >= b THEN a ELSE b

\* pandas sort_values(by=...) with the default kind='quicksort', which is not
\* a stable sort: rows with equal keys may come out in any order.
\* SortOutcomes(s, by, I) is the set of orders of the rows s[i], i \in I.
RECURSIVE SortOutcomes(_, _, _)
SortOutcomes(s, by, I) ==
    IF I = {} THEN {<<>>}
    ELSE LET C == {i \in I : \A j \in I : s[i][by] <= s[j][by]}
         IN  UNION {{<<s[i]>> \o t : t \in SortOutcomes(s, by, I \ {i})} : i \in C}

sort_values(s, by) == SortOutcomes(s, by, DOMAIN s)

\* DataFrame.head(n)
head(s, n) == IF Len(s) <= n THEN s ELSE SubSeq(s, 1, n)

\* (df['Return'] - df['Departure']).dt.days - 1
LengthOf(row) == (row.Return - row.Departure) - 1

\* a ledger that deducts every trip from the full allowance, not from the
\* balance the trip before it left
RECURSIVE balances_no_carry(_, _, _)
balances_no_carry(lengths, allowance, i) ==
    IF i > Len(lengths) THEN <<>>
    ELSE <<allowance - lengths[i]>> \o balances_no_carry(lengths, allowance, i + 1)

\* for i, row in df.iterrows(): allowance -= row['Length']; balances.append(allowance)
RECURSIVE balances(_, _, _)
balances(lengths, allowance, i) ==
    IF i > Len(lengths) THEN <<>>
    ELSE <<allowance - lengths[i]>> \o balances(lengths, allowance - lengths[i], i + 1)

\* pd.date_range(start, end) as the sequence of its days (empty when start > end)
date_range(start, end) == [k \in 1 .. (end - start + 1) |-> start + k - 1]

\* occupied ranges that count the day of return as a day abroad
used_ranges_with_return(rows) ==
    [i \in DOMAIN rows |-> date_range(rows[i].Departure + 1, rows[i].Return)]

\* pd.date_range(row.Departure + 1 day, row.Return - 1 day) for each row
used_ranges(rows) ==
    [i \in DOMAIN rows |-> date_range(rows[i].Departure + 1, rows[i].Return - 1)]

\* pd.concat([pd.Series(x) for x in used_ranges], ignore_index=True)
RECURSIVE concat(_, _)
concat(ranges, i) ==
    IF i > Len(ranges) THEN <<>> ELSE ranges[i] \o concat(ranges, i + 1)

\* a flattened list that keeps each calendar date once
flat_abroad_unique(rows) ==
    LET all == concat(used_ranges(rows), 1)
        first == {k \in DOMAIN all : \A j \in 1 .. (k - 1) : all[j] # all[k]}
    IN  [n \in 1 .. Cardinality(first) |->
            all[CHOOSE k \in first : Cardinality({j \in first : j < k}) = n - 1]]

flat_abroad(rows) == concat(used_ranges(rows), 1)

\* (flat_abroad <= day).sum()
days_abroad(flat, day) == Cardinality({k \in DOMAIN flat : flat[k] <= day})

\* df['Departure'].min()
MinDeparture(rows) ==
    CHOOSE d \in {rows[i].Departure : i \in DOMAIN rows} :
        \A i \in DOMAIN rows : d <= rows[i].Departure

\* a daily loop that forgets the floor at zero
daily_events_no_floor(rows, first, last) ==
    LET flat == flat_abroad(rows)
    IN  [day \in first .. last |->
            LET n == days_abroad(flat, day)
            IN  [days_abroad |-> n, remaining |-> DailyCap - n]]

\* the loop over all_dates: one point per day
daily_events(rows, first, last) ==
    LET flat == flat_abroad(rows)
    IN  [day \in first .. last |->
            LET n == days_abroad(flat, day)
            IN  [days_abroad |-> n, remaining |-> Max(DailyCap - n, 0)]]

\* a restoration list dated from the Departure
RECURSIVE restoration_rows_from_departure(_, _, _, _)
restoration_rows_from_departure(rows, lengths, current_balance, i) ==
    IF i > Len(rows) THEN <<>>
    ELSE <<[Date |-> rows[i].Departure + RestoreDays,
            Restored |-> lengths[i],
            NewBalance |-> current_balance + lengths[i]]>>
         \o restoration_rows_from_departure(rows, lengths, current_balance + lengths[i], i + 1)

\* a restoration list that records the balance before it adds the trip back
RECURSIVE restoration_rows_record_first(_, _, _, _)
restoration_rows_record_first(rows, lengths, current_balance, i) ==
    IF i > Len(rows) THEN <<>>
    ELSE <<[Date |-> rows[i].Return + RestoreDays,
            Restored |-> lengths[i],
            NewBalance |-> current_balance]>>
         \o restoration_rows_record_first(rows, lengths, current_balance + lengths[i], i + 1)

\* the loop over df.itertuples() that fills the restoration list
RECURSIVE restoration_rows(_, _, _, _)
restoration_rows(rows, lengths, current_balance, i) ==
    IF i > Len(rows) THEN <<>>
    ELSE <<[Date |-> rows[i].Return + RestoreDays,
            Restored |-> lengths[i],
            NewBalance |-> current_balance + lengths[i]]>>
         \o restoration_rows(rows, lengths, current_balance + lengths[i], i + 1)

(* ------------------------------ the run -------------------------------- *)

Init ==
    /\ pc = "load"
    /\ data \in Inputs
    /\ today \in TodaySet
    /\ df = <<>>
    /\ Length = <<>>
    /\ Allowance = <<>>
    /\ daily = <<>>
    /\ restoration = <<>>
    /\ restoration_df = <<>>

\* if uploaded_file: df = pd.read_csv(...)
LoadCsv ==
    /\ pc = "load"
    /\ df' = data
    /\ pc' = "process"
    /\ UNCHANGED <<data, today, Length, Allowance, daily, restoration, restoration_df>>

\* elif use_google_sheet, with credentials: a sheet without records gives a
\* frame without columns, df['Departure'] raises inside the try, st.stop()
LoadSheet ==
    /\ pc = "load"
    /\ IF data = <<>>
       THEN pc' = "stopped" /\ df' = df
       ELSE pc' = "process" /\ df' = data
    /\ UNCHANGED <<data, today, Length, Allowance, daily, restoration, restoration_df>>

\* no credentials, a failing sheet read, or neither source chosen: st.stop()
LoadStop ==
    /\ pc = "load"
    /\ pc' = "stopped"
    /\ UNCHANGED <<data, today, df, Length, Allowance, daily, restoration, restoration_df>>

\* === Process Data ===: sort by Departure, Length column, ledger fold
Process ==
    /\ pc = "process"
    /\ df # <<>>
    /\ \E s \in sort_values(df, "Departure") :
          /\ df' = s
          /\ Length' = [i \in DOMAIN s |-> LengthOf(s[i])]
          /\ Allowance' = balances([i \in DOMAIN s |-> LengthOf(s[i])], InitialAllowance, 1)
    /\ pc' = "daily"
    /\ UNCHANGED <<data, today, daily, restoration, restoration_df>>

\* the same on a frame without rows: the columns are empty; when the reader
\* left them with dtype object the .dt accessor raises
ProcessEmpty ==
    /\ pc = "process"
    /\ df = <<>>
    /\ pc' \in {"daily", "error"}
    /\ UNCHANGED <<data, today, df, Length, Allowance, daily, restoration, restoration_df>>

\* === Build Daily Allowance Tracker ===; df['Departure'].min() of a frame
\* without rows is NaT and pd.date_range raises
BuildDaily ==
    /\ pc = "daily"
    /\ IF df = <<>>
       THEN pc' = "error" /\ daily' = daily
       ELSE /\ daily' = daily_events(df, MinDeparture(df), today + FutureDays)
            /\ pc' = "restore"
    /\ UNCHANGED <<data, today, df, Length, Allowance, restoration, restoration_df>>

\* a restoration table that sorts by Date first and accumulates afterwards
RECURSIVE running_balance(_, _, _)
running_balance(events, current_balance, i) ==
    IF i > Len(events) THEN <<>>
    ELSE <<[events[i] EXCEPT !.NewBalance = current_balance + events[i].Restored]>>
         \o running_balance(events, current_balance + events[i].Restored, i + 1)

RestorationSortFirst ==
    /\ pc = "restore"
    /\ LET rs == restoration_rows(df, Length, Allowance[Len(Allowance)], 1)
       IN  /\ restoration' = rs
           /\ \E s \in sort_values(rs, "Date") :
                 restoration_df' =
                     head(running_balance(s, Allowance[Len(Allowance)], 1), HeadLimit)
    /\ pc' = "done"
    /\ UNCHANGED <<data, today, df, Length, Allowance, daily>>

\* === Restoration Dates ===: accumulate in df order, sort by Date, head(10)
Restoration ==
    /\ pc = "restore"
    /\ LET rs == restoration_rows(df, Length, Allowance[Len(Allowance)], 1)
       IN  /\ restoration' = rs
           /\ \E s \in sort_values(rs, "Date") : restoration_df' = head(s, HeadLimit)
    /\ pc' = "done"
    /\ UNCHANGED <<data, today, df, Length, Allowance, daily>>

\* === Auto-Refresh ===: st.experimental_rerun() runs the script again, 60
\* seconds later, on the same uploaded table (the same day here)
AutoRefresh ==
    /\ pc = "done"
    /\ pc' = "load"
    /\ df' = <<>>
    /\ Length' = <<>>
    /\ Allowance' = <<>>
    /\ daily' = <<>>
    /\ restoration' = <<>>
    /\ restoration_df' = <<>>
    /\ UNCHANGED <<data, today>>

Next ==
    \/ LoadCsv
    \/ LoadSheet
    \/ LoadStop
    \/ Process
    \/ ProcessEmpty
    \/ BuildDaily
    \/ Restoration
    \/ AutoRefresh

Spec == Init /\ [][Next]_vars

\* the same runs, started a year and more after the trips
InitLate ==
    /\ pc = "load"
    /\ data \in Inputs
    /\ today \in LateSet
    /\ df = <<>>
    /\ Length = <<>>
    /\ Allowance = <<>>
    /\ daily = <<>>
    /\ restoration = <<>>
    /\ restoration_df = <<>>

SpecLate == InitLate /\ [][Next]_vars

(* ------------------------- properties of a run ------------------------- *)

\* the run is past Process Data on a table with rows
Processed == pc \in {"daily", "restore", "done"} /\ df # <<>>

\* the daily allowance tracker has been built
Projected == pc \in {"restore", "done"}

Min(a, b) == IF a <= b THEN a ELSE b

\* days strictly between Departure and Return
DaysBetween(row) == row.Return - row.Departure - 1

\* sum of DaysBetween over the rows 1..i of s
RECURSIVE SumBetween(_, _)
SumBetween(s, i) == IF i = 0 THEN 0 ELSE SumBetween(s, i - 1) + DaysBetween(s[i])

\* how often the value v occurs in the sequence s
Count(s, v) == Cardinality({i \in DOMAIN s : s[i] = v})

SameRows(s, t) ==
    /\ Len(s) = Len(t)
    /\ \A i \in DOMAIN s : Count(s, s[i]) = Count(t, s[i])

ValidTrips == \A i \in DOMAIN df : df[i].Return > df[i].Departure

\* the Date and Restored of the event of a trip
EventOf(row) == [Date |-> row.Return + 365, Restored |-> DaysBetween(row)]

Shown(e) == [Date |-> e.Date, Restored |-> e.Restored]

\* the trips i < j whose restore dates run against their departures
OrdersDiffer ==
    \E i, j \in DOMAIN df : i < j /\ df[i].Return > df[j].Return

\* C1: after the sort by Departure the balance of trip i is the balance of
\* trip i - 1 (180 before the first) minus Length(i), Length = Return -
\* Departure - 1, and the last balance is 180 minus the sum of Length over
\* the input rows in whatever order they were given.
C1_LedgerFold ==
    Processed =>
        /\ SameRows(df, data)
        /\ \A i \in 1 .. (Len(df) - 1) : df[i].Departure <= df[i + 1].Departure
        /\ Len(Length) = Len(df)
        /\ Len(Allowance) = Len(df)
        /\ \A i \in DOMAIN df :
              /\ Length[i] = DaysBetween(df[i])
              /\ Allowance[i] = (IF i = 1 THEN 180 ELSE Allowance[i - 1]) - Length[i]
        /\ Allowance[Len(df)] = 180 - SumBetween(data, Len(data))

C1_Witness ==
    /\ pc = "done"
    /\ Len(df) >= 2
    /\ df # data
    /\ \A i \in DOMAIN df : Length[i] > 0

\* C2: every row with Return <= Departure is left out: each trip in the
\* ledger has Return > Departure and Length >= 0, and no restoration event
\* has a negative amount.
C2_InvalidRowsExcluded ==
    /\ Processed =>
          \A i \in DOMAIN df : df[i].Return > df[i].Departure /\ Length[i] >= 0
    /\ pc = "done" => \A k \in DOMAIN restoration : restoration[k].Restored >= 0

\* C3: a run on an empty trip table ends in a valid state, not in an error:
\* no restoration, and a daily series flat at 180.
C3_EmptyRunCompletes ==
    (data = <<>> /\ pc \in {"daily", "restore", "done", "error"}) =>
        /\ pc # "error"
        /\ restoration_df = <<>>
        /\ \A d \in DOMAIN daily : daily[d].remaining = 180

\* C4: every event of the schedule is the event of a trip, Date = Return +
\* 365 and Restored = Length; the events are in ascending Date order; trips
\* with the same restore date keep one event each.
C4_RestorationSchedule ==
    pc = "done" =>
        /\ Len(restoration) = Len(df)
        /\ \A i \in DOMAIN df :
              Cardinality({k \in DOMAIN restoration : Shown(restoration[k]) = EventOf(df[i])})
                  = Cardinality({j \in DOMAIN df : EventOf(df[j]) = EventOf(df[i])})
        /\ Len(restoration_df) = Min(Len(df), 10)
        /\ \A k \in DOMAIN restoration_df :
              /\ \E i \in DOMAIN df : Shown(restoration_df[k]) = EventOf(df[i])
              /\ Count(restoration_df, restoration_df[k])
                    <= Count(restoration, restoration_df[k])
        /\ \A k \in 1 .. (Len(restoration_df) - 1) :
              restoration_df[k].Date <= restoration_df[k + 1].Date

C4_Witness ==
    /\ pc = "done"
    /\ \E k, l \in DOMAIN restoration_df :
          /\ k # l
          /\ restoration_df[k].Date = restoration_df[l].Date
          /\ restoration_df[k].Restored # restoration_df[l].Restored

\* C5: the displayed schedule holds at most 10 events, all of them upcoming
\* (Date not before today), and they are the earliest upcoming ones: no
\* upcoming event is left out unless 10 upcoming events at least as early
\* are shown.
C5_NextTenUpcoming ==
    pc = "done" =>
        LET upcoming == {k \in DOMAIN restoration : restoration[k].Date >= today}
        IN  /\ Len(restoration_df) = Min(Cardinality(upcoming), 10)
            /\ \A k \in DOMAIN restoration_df : restoration_df[k].Date >= today
            /\ \A k \in upcoming :
                  \/ Count(restoration_df, restoration[k]) > 0
                  \/ \A l \in DOMAIN restoration_df :
                        restoration_df[l].Date <= restoration[k].Date

\* C6: the event of the trip at position i of the Departure order carries
\* New Balance = final ledger balance + Length(1) + ... + Length(i), and the
\* schedule shows these events unchanged, re-ordered by Date; when the restore
\* dates run against the departures, the balances shown are not the running
\* sum taken in the order shown.
C6_AccumulateThenSort ==
    pc = "done" =>
        LET final == 180 - SumBetween(df, Len(df))
        IN  /\ Len(restoration) = Len(df)
            /\ \A i \in DOMAIN df :
                  restoration[i] =
                      [Date |-> df[i].Return + 365,
                       Restored |-> DaysBetween(df[i]),
                       NewBalance |-> final + SumBetween(df, i)]
            /\ Len(restoration_df) = Min(Len(df), 10)
            /\ \A k \in DOMAIN restoration_df :
                  /\ Count(restoration_df, restoration_df[k])
                        <= Count(restoration, restoration_df[k])
                  /\ k > 1 => restoration_df[k - 1].Date <= restoration_df[k].Date
            /\ OrdersDiffer =>
                  \E k \in DOMAIN restoration_df :
                      restoration_df[k].NewBalance
                          # final + SumBetween([m \in DOMAIN restoration_df |->
                                  Row(0, restoration_df[m].Restored + 1)], k)

C6_Witness ==
    /\ pc = "done"
    /\ OrdersDiffer
    /\ ValidTrips
    /\ Len(restoration_df) >= 2
    /\ restoration_df[1].NewBalance > restoration_df[2].NewBalance

\* C7: the daily series covers the earliest Departure through today + 365;
\* remaining lies in 0..180, never increases from a day to the next, and
\* stays the same when the later day is strictly inside no trip.
C7_DailyBounds ==
    (Projected /\ df # <<>>) =>
        /\ DOMAIN daily = MinDeparture(df) .. (today + 365)
        /\ \A d \in DOMAIN daily :
              /\ daily[d].remaining >= 0
              /\ daily[d].remaining <= 180
              /\ (d + 1) \in DOMAIN daily =>
                    /\ daily[d + 1].remaining <= daily[d].remaining
                    /\ (\A i \in DOMAIN df :
                            ~(df[i].Departure < d + 1 /\ d + 1 < df[i].Return))
                          => daily[d + 1].remaining = daily[d].remaining

C7_Witness ==
    /\ pc = "done"
    /\ \E d \in DOMAIN daily :
          /\ (d + 1) \in DOMAIN daily
          /\ daily[d].remaining > 0
          /\ daily[d + 1].remaining = 0
    /\ \E d \in DOMAIN daily :
          /\ (d + 1) \in DOMAIN daily
          /\ daily[d].remaining = 180
          /\ daily[d + 1].remaining < 180

\* the calendar dates up to day that lie strictly inside some trip
OccupiedDates(day) ==
    {x \in MinDeparture(df) .. day :
        \E i \in DOMAIN df : df[i].Departure < x /\ x < df[i].Return}

\* the days of trip i up to day that lie strictly inside it
RECURSIVE TripDays(_, _)
TripDays(i, day) ==
    IF i = 0 THEN 0
    ELSE TripDays(i - 1, day)
         + Max(0, Min(day, df[i].Return - 1) - df[i].Departure)

\* C8 as stated: days consumed to date is the number of calendar dates up
\* to D strictly inside some trip, a date inside two trips being one date,
\* and remaining = max(180 - that, 0).
C8_CalendarDates ==
    (Projected /\ df # <<>>) =>
        \A d \in DOMAIN daily :
            /\ daily[d].days_abroad = Cardinality(OccupiedDates(d))
            /\ daily[d].remaining = Max(180 - Cardinality(OccupiedDates(d)), 0)

\* C8 as amended: days consumed to date is the number of trip-days up to D,
\* each trip counting the dates strictly inside it, so that a date inside
\* two trips counts twice; remaining = max(180 - that, 0).
C8_TripDays ==
    (Projected /\ df # <<>>) =>
        \A d \in DOMAIN daily :
            /\ daily[d].days_abroad = TripDays(Len(df), d)
            /\ daily[d].remaining = Max(180 - TripDays(Len(df), d), 0)

C8_Witness ==
    /\ pc = "done"
    /\ \E d \in DOMAIN daily :
          /\ daily[d].days_abroad > Cardinality(OccupiedDates(d))
          /\ \E i, j \in DOMAIN df :
                /\ i # j
                /\ df[i].Departure < d /\ d < df[i].Return
                /\ df[j].Departure < d /\ d < df[j].Return

\* C9: when every trip has Return > Departure, each trip adds exactly its
\* Length to the daily count, so on every day of the series on or after every
\* Return the count is the sum of Length and remaining = max(final ledger
\* balance, 0).
C9_SameBoundaries ==
    (Projected /\ df # <<>> /\ ValidTrips) =>
        /\ \A i \in DOMAIN df : Len(used_ranges(df)[i]) = Length[i]
        /\ \A d \in DOMAIN daily :
              (\A i \in DOMAIN df : d >= df[i].Return) =>
                  /\ daily[d].days_abroad = 180 - Allowance[Len(df)]
                  /\ daily[d].remaining = Max(Allowance[Len(df)], 0)

C9_Witness ==
    /\ pc = "done"
    /\ ValidTrips
    /\ Len(df) >= 2
    /\ Allowance[Len(df)] < 180
    /\ Allowance[Len(df)] > 0
    /\ \E d \in DOMAIN daily : \A i \in DOMAIN df : d >= df[i].Return

\* the trips that leave on the latest Departure of the table
LatestDeparting == {i \in DOMAIN df : \A j \in DOMAIN df : df[j].Departure <= df[i].Departure}

\* C10 as stated: for trips with Return > Departure every New Balance shown
\* lies between the final ledger balance and 180, and the event of a trip
\* with the latest Departure, when shown, has New Balance 180.
C10_LatestDepartureIs180 ==
    (pc = "done" /\ ValidTrips) =>
        /\ \A k \in DOMAIN restoration_df :
              /\ restoration_df[k].NewBalance >= Allowance[Len(df)]
              /\ restoration_df[k].NewBalance <= 180
        /\ \A i \in LatestDeparting :
              restoration[i].NewBalance # 180 =>
                  Count(restoration_df, restoration[i]) = 0

\* C10 as amended: for trips with Return > Departure every New Balance shown
\* lies between the final ledger balance and 180, and the event of the trip
\* the Departure sort places last has New Balance 180; it is the event of the
\* trip with the latest Departure when no other trip leaves on that day.
C10_NewBalanceRange ==
    (pc = "done" /\ ValidTrips) =>
        LET n == Len(df)
        IN  /\ \A k \in DOMAIN restoration_df :
                  /\ restoration_df[k].NewBalance >= Allowance[n]
                  /\ restoration_df[k].NewBalance <= 180
            /\ restoration[n].NewBalance = 180
            /\ Shown(restoration[n]) = EventOf(df[n])
            /\ LatestDeparting = {n} =>
                  \A k \in DOMAIN restoration_df :
                      Shown(restoration_df[k]) = EventOf(df[n])
                          => restoration_df[k].NewBalance = 180

C10_Witness ==
    /\ pc = "done"
    /\ ValidTrips
    /\ Len(df) >= 2
    /\ LatestDeparting = {Len(df)}
    /\ \E k \in DOMAIN restoration_df :
          /\ Shown(restoration_df[k]) = EventOf(df[Len(df)])
          /\ restoration_df[k].NewBalance = 180
          /\ restoration_df[k].Restored > 0
    /\ Allowance[Len(df)] < 180

====
